---- MODULE Spec2Model ----
(***************************************************************************)
(* A model of the TTL cache of src/ttl-cache.go: the keyed store `cache`,  *)
(* the expiration index `ttlHK`, the entry objects both point to, the      *)
(* clock that getExp reads and the sweep ticker made by the constructor.   *)
(*                                                                         *)
(* Time is counted in clock units, `Second` of them to a second, so that   *)
(* the truncation to whole seconds done by Unix() in getExp is part of the *)
(* model.  Entry objects live in `heap`, a map from addresses to records:  *)
(* the store and the index hold addresses, so an in-place update of an     *)
(* entry is seen through both, and two entries with equal fields are still *)
(* two entries.                                                            *)
(***************************************************************************)
EXTENDS Integers, Sequences, FiniteSets, TLC

VARIABLES
    now,         \* the wall clock read by time.Now(), in clock units
    defaultTTL,  \* TTLCache.defaultTTL
    sweepPeriod, \* the period the sweepTicker was made with
    sweepC,      \* ticks waiting in sweepTicker.C (a channel of capacity 1)
    cache,       \* TTLCache.cache: key -> address of its entry
    ttlHK,       \* TTLCache.ttlHK: sequence of entry addresses
    heap,        \* the cacheEntry objects: address -> [key, value, exp]
    last,        \* the call that has just returned and what it returned, until
                 \* the caller has taken the result
    written,     \* per key, the value passed to the most recent Set
    pc,          \* per caller, the statement it is about to execute
    loc          \* per caller, the local variables of its call

vars == <<now, defaultTTL, sweepPeriod, sweepC, cache, ttlHK, heap, last,
          written, pc, loc>>

(***************************************************************************)
(* Bounds of the model.                                                    *)
(***************************************************************************)
NumKeys == 3
\* The clock runs up to MaxTime; callers Set up to SetUntil.
MaxTime == 5
SetUntil == 2
MaxTTL == 2
NumProcs == 2
\* Calls each concurrent caller makes.
MaxCalls == 1
\* The arguments the cache is constructed with: a capacity hint, the default
\* TTL and the sweep period, both in clock units.
MaxArg == 3
NumSize == 1
DefaultTTL == 1
SweepPeriod == 1

\* Clock units per second: time.Second, scaled down.
Second == 3
\* Number of values of cacheEntry.exp: 2^32 for the uint32 of the source,
\* scaled down (TLC's integers are 32 bits wide).
ExpMod == 64

Keys == 1 .. NumKeys
Values == {"x", "y"}
Procs == 1 .. NumProcs
\* Durations a caller may pass as optTTL: zero (not positive) and positive ones.
Durations == 0 .. MaxTTL
\* The variadic optTTL argument of Set: absent, or given.
OptTTLs == {<<>>} \cup {<<d>> : d \in Durations}

NilValue == "nil"
NilErr == [kind |-> "nil", key |-> 0]
NoCall == [op |-> "none", key |-> 0, val |-> NilValue, err |-> NilErr, upd |-> FALSE]
\* The locals of a caller: the entry made by Set (key, value, exp), the
\* address of the entry it works on, the index i found by sort.Search, what
\* its last call returned, and the calls it has made.
NoLocals == [key |-> 0, value |-> NilValue, exp |-> 0, addr |-> 0, i |-> 0,
             val |-> NilValue, err |-> NilErr, calls |-> 0]

(***************************************************************************)
(* errs.go                                                                 *)
(***************************************************************************)
newInvalidSweepPeriodErr(d) == [kind |-> "InvalidSweepPeriod", arg |-> d]
newInvalidTTLErr(d) == [kind |-> "InvalidTTL", arg |-> d]
newInvalidSizeErr(n) == [kind |-> "InvalidSize", arg |-> n]
newBadUpdateRequestErr(k) == [kind |-> "BadUpdateRequest", key |-> k]
\* Called by Get and by the tests; its definition is not among the sources.
newKeyNotFoundErr(k) == [kind |-> "KeyNotFound", key |-> k]

(***************************************************************************)
(* Entries and expiration.                                                 *)
(***************************************************************************)
newCacheEntry(k, v, e) == [key |-> k, value |-> v, exp |-> e]

\* uint32(time.Now().Add(ttl).Unix()): whole seconds, truncated to the width
\* of exp.
getExp(t, ttl) == ((t + ttl) \div Second) % ExpMod

\* The address given to a newly allocated entry for key k: any free address
\* will do, and the first free one among k, k + NumKeys, ... is taken.
NewAddr(h, k) ==
    CHOOSE a \in {k + n * NumKeys : n \in 0 .. Cardinality(DOMAIN h)} :
        /\ a \notin DOMAIN h
        /\ \A b \in {k + n * NumKeys : n \in 0 .. Cardinality(DOMAIN h)} :
              b \notin DOMAIN h => a <= b

\* The placeholder &cacheEntry{} appended by insertNewHKEntry: a zero entry.
Placeholder == 0
EntryAt(h, a) == IF a = Placeholder THEN newCacheEntry(0, NilValue, 0) ELSE h[a]

(***************************************************************************)
(* sort.Search(n, f): the binary search of the standard library, on        *)
(* 0-based indexes; s[h + 1] is the Go element s[h].                       *)
(***************************************************************************)
RECURSIVE SearchLoop(_, _, _, _, _)
SearchLoop(s, h, e, i, j) ==
    IF i < j
    THEN LET m == (i + j) \div 2 IN
         IF ~(EntryAt(h, s[m + 1]).exp >= e)
         THEN SearchLoop(s, h, e, m + 1, j)
         ELSE SearchLoop(s, h, e, i, m)
    ELSE i

\* The first index whose exp is greater than e, not greater or equal.
RECURSIVE SearchLoopAfter(_, _, _, _, _)
SearchLoopAfter(s, h, e, i, j) ==
    IF i < j
    THEN LET m == (i + j) \div 2 IN
         IF ~(EntryAt(h, s[m + 1]).exp > e)
         THEN SearchLoopAfter(s, h, e, m + 1, j)
         ELSE SearchLoopAfter(s, h, e, i, m)
    ELSE i

SortSearch_upperBound(s, h, e) == SearchLoopAfter(s, h, e, 0, Len(s))

SortSearch(s, h, e) == SearchLoop(s, h, e, 0, Len(s))

\* copy(s[i+1:], s[i:]) after the append: Go's 0-based i; the elements from i
\* on move one slot right (memmove), the last one is overwritten.
CopyRight(s, i) ==
    [n \in 1 .. Len(s) |-> IF n > i + 1 THEN s[n - 1] ELSE s[n]]

insertNewHKEntry_noShift(hk, h, a) ==
    LET i == SortSearch(hk, h, h[a].exp)
        appended == Append(hk, Placeholder)
    IN  [appended EXCEPT ![i + 1] = a]

insertNewHKEntry_append(hk, h, a) == Append(hk, a)

insertNewHKEntry(hk, h, a) ==
    LET i == SortSearch(hk, h, h[a].exp)
        appended == Append(hk, Placeholder)
        shifted == CopyRight(appended, i)
    IN  [shifted EXCEPT ![i + 1] = a]

(***************************************************************************)
(* sort.Slice(c.ttlHK, less) with the less of updateCacheEntry.  For a     *)
(* slice of at most 12 elements sort.Slice is an insertion sort (for at    *)
(* most 6 in every release of the library), which is what is modelled; the *)
(* bounds keep the index shorter than that.                                *)
(***************************************************************************)
\* func(i, j int) bool { return c.ttlHK[i].exp >= c.ttlHK[i].exp }
Less(s, h, i, j) == EntryAt(h, s[i]).exp >= EntryAt(h, s[i]).exp

Swap(s, i, j) == [s EXCEPT ![i] = s[j], ![j] = s[i]]

\* for j := i; j > a && less(j, j-1); j-- { swap(j, j-1) }
RECURSIVE InsertionInner(_, _, _)
InsertionInner(s, h, j) ==
    IF j > 1 /\ Less(s, h, j, j - 1)
    THEN InsertionInner(Swap(s, j, j - 1), h, j - 1)
    ELSE s

\* for i := a + 1; i < b; i++ { ... }
RECURSIVE InsertionOuter(_, _, _)
InsertionOuter(s, h, i) ==
    IF i <= Len(s) THEN InsertionOuter(InsertionInner(s, h, i), h, i + 1) ELSE s

SortSlice(s, h) == InsertionOuter(s, h, 2)

(***************************************************************************)
(* updateCacheEntry: the result is the error returned, the heap and the    *)
(* index after the call.                                                   *)
(***************************************************************************)
updateCacheEntry_append(c, h, hk, entry) ==
    IF entry.key \notin DOMAIN c
    THEN [err |-> newBadUpdateRequestErr(entry.key), heap |-> h, ttlHK |-> hk]
    ELSE LET a == NewAddr(h, entry.key)
             h2 == h @@ (a :> entry)
         IN  [err |-> NilErr, heap |-> h2, ttlHK |-> insertNewHKEntry(hk, h2, a)]

updateCacheEntry_keepValue(c, h, hk, entry) ==
    IF entry.key \notin DOMAIN c
    THEN [err |-> newBadUpdateRequestErr(entry.key), heap |-> h, ttlHK |-> hk]
    ELSE LET h2 == [h EXCEPT ![c[entry.key]].exp = entry.exp]
         IN  [err |-> NilErr, heap |-> h2, ttlHK |-> SortSlice(hk, h2)]

updateCacheEntry_invertedCheck(c, h, hk, entry) ==
    IF entry.key \in DOMAIN c
    THEN [err |-> newBadUpdateRequestErr(entry.key), heap |-> h, ttlHK |-> hk]
    ELSE [err |-> NilErr, heap |-> h, ttlHK |-> SortSlice(hk, h)]

updateCacheEntry_firstEntry(c, h, hk, entry) ==
    IF entry.key \notin DOMAIN c
    THEN [err |-> newBadUpdateRequestErr(entry.key), heap |-> h, ttlHK |-> hk]
    ELSE LET existingValue == hk[1]
             h2 == [h EXCEPT ![existingValue].value = entry.value,
                             ![existingValue].exp = entry.exp]
         IN  [err |-> NilErr, heap |-> h2, ttlHK |-> SortSlice(hk, h2)]

updateCacheEntry_upsert(c, h, hk, entry) ==
    IF entry.key \notin DOMAIN c
    THEN LET a == NewAddr(h, entry.key)
             h2 == h @@ (a :> entry)
         IN  [err |-> NilErr, heap |-> h2, ttlHK |-> insertNewHKEntry(hk, h2, a)]
    ELSE LET existingValue == c[entry.key]
             h2 == [h EXCEPT ![existingValue].value = entry.value,
                             ![existingValue].exp = entry.exp]
         IN  [err |-> NilErr, heap |-> h2, ttlHK |-> SortSlice(hk, h2)]

updateCacheEntry(c, h, hk, entry) ==
    IF entry.key \notin DOMAIN c
    THEN [err |-> newBadUpdateRequestErr(entry.key), heap |-> h, ttlHK |-> hk]
    ELSE LET existingValue == c[entry.key]
             h2 == [h EXCEPT ![existingValue].value = entry.value,
                             ![existingValue].exp = entry.exp]
         IN  [err |-> NilErr, heap |-> h2, ttlHK |-> SortSlice(hk, h2)]

(***************************************************************************)
(* NewTTLCache: the error, and the cache when there is none.               *)
(***************************************************************************)
NewTTLCache_zeroTTLAllowed(numSize, dTTL, sweep) ==
    IF numSize <= 0 THEN [err |-> newInvalidSizeErr(numSize), ok |-> FALSE]
    ELSE IF dTTL < 0 THEN [err |-> newInvalidTTLErr(dTTL), ok |-> FALSE]
    ELSE IF sweep <= 0 THEN [err |-> newInvalidSweepPeriodErr(sweep), ok |-> FALSE]
    ELSE [err |-> NilErr, ok |-> TRUE, defaultTTL |-> dTTL, sweepPeriod |-> sweep,
          cache |-> <<>>, ttlHK |-> <<>>]

NewTTLCache(numSize, dTTL, sweep) ==
    IF numSize <= 0 THEN [err |-> newInvalidSizeErr(numSize), ok |-> FALSE]
    ELSE IF dTTL <= 0 THEN [err |-> newInvalidTTLErr(dTTL), ok |-> FALSE]
    ELSE IF sweep <= 0 THEN [err |-> newInvalidSweepPeriodErr(sweep), ok |-> FALSE]
    ELSE [err |-> NilErr, ok |-> TRUE, defaultTTL |-> dTTL, sweepPeriod |-> sweep,
          cache |-> <<>>, ttlHK |-> <<>>]

SetTTL_ignoreOverride(optTTL, dTTL) == dTTL

\* The ttl Set uses: optTTL[0] when given and positive, else the default.
SetTTL(optTTL, dTTL) ==
    IF Len(optTTL) > 0 /\ optTTL[1] > 0 THEN optTTL[1] ELSE dTTL

\* Get: the value and the error returned.
Get_activeExpiration(c, h, t, k) ==
    IF k \notin DOMAIN c \/ h[c[k]].exp <= t \div Second
    THEN [val |-> NilValue, err |-> newKeyNotFoundErr(k)]
    ELSE [val |-> h[c[k]].value, err |-> NilErr]

Get_missNoError(c, h, t, k) ==
    IF k \notin DOMAIN c
    THEN [val |-> NilValue, err |-> NilErr]
    ELSE [val |-> h[c[k]].value, err |-> NilErr]

Get(c, h, t, k) ==
    IF k \notin DOMAIN c
    THEN [val |-> NilValue, err |-> newKeyNotFoundErr(k)]
    ELSE [val |-> h[c[k]].value, err |-> NilErr]

(***************************************************************************)
(* The sequential cache: calls do not overlap.                             *)
(***************************************************************************)
Init ==
    /\ now = 0
    /\ LET r == NewTTLCache(NumSize, DefaultTTL, SweepPeriod) IN
          /\ r.ok
          /\ defaultTTL = r.defaultTTL
          /\ sweepPeriod = r.sweepPeriod
          /\ cache = r.cache
          /\ ttlHK = r.ttlHK
    /\ sweepC = 0
    /\ heap = <<>>
    /\ last = NoCall
    /\ written = [k \in Keys |-> NilValue]
    /\ pc = [p \in Procs |-> "idle"]
    /\ loc = [p \in Procs |-> NoLocals]

\* Time passes; the ticker sends a tick every sweepPeriod, dropped when the
\* channel is full.  Nothing in the package receives from the channel.
AdvanceClock ==
    /\ last = NoCall
    /\ now < MaxTime
    /\ now' = now + 1
    /\ sweepC' = IF (now + 1) % sweepPeriod = 0 THEN 1 ELSE sweepC
    /\ UNCHANGED <<defaultTTL, sweepPeriod, cache, ttlHK, heap, last, written, pc, loc>>

SetCall(k, v, optTTL) ==
    LET ttl == SetTTL(optTTL, defaultTTL)
        entry == newCacheEntry(k, v, getExp(now, ttl))
    IN  /\ last = NoCall
        /\ now <= SetUntil
        /\ IF k \in DOMAIN cache
           THEN LET r == updateCacheEntry(cache, heap, ttlHK, entry) IN
                /\ heap' = r.heap
                /\ ttlHK' = r.ttlHK
                /\ cache' = cache
                /\ last' = [op |-> "Set", key |-> k, val |-> v, opt |-> optTTL,
                            err |-> r.err, upd |-> TRUE]
           ELSE LET a == NewAddr(heap, k) IN
                /\ heap' = heap @@ (a :> entry)
                /\ cache' = cache @@ (k :> a)
                /\ ttlHK' = insertNewHKEntry(ttlHK, heap', a)
                /\ last' = [op |-> "Set", key |-> k, val |-> v, opt |-> optTTL,
                            err |-> NilErr, upd |-> FALSE]
        /\ written' = [written EXCEPT ![k] = v]
        /\ UNCHANGED <<now, defaultTTL, sweepPeriod, sweepC, pc, loc>>

\* A Get that drops the entry it finds expired, from the store and the index.
GetCall_evict(k) ==
    LET r == Get_activeExpiration(cache, heap, now, k)
        gone == k \in DOMAIN cache /\ r.err # NilErr
    IN  /\ last = NoCall
        /\ last' = [op |-> "Get", key |-> k, val |-> r.val, err |-> r.err, upd |-> FALSE]
        /\ cache' = IF gone THEN [j \in DOMAIN cache \ {k} |-> cache[j]] ELSE cache
        /\ ttlHK' = IF gone THEN SelectSeq(ttlHK, LAMBDA a : a # cache[k]) ELSE ttlHK
        /\ UNCHANGED <<now, defaultTTL, sweepPeriod, sweepC, heap, written, pc, loc>>

GetCall(k) ==
    LET r == Get(cache, heap, now, k) IN
    /\ last = NoCall
    /\ last' = [op |-> "Get", key |-> k, val |-> r.val, err |-> r.err, upd |-> FALSE]
    /\ UNCHANGED <<now, defaultTTL, sweepPeriod, sweepC, cache, ttlHK, heap, written, pc, loc>>

\* The caller takes the result of its call; the next call can start.
Return ==
    /\ last # NoCall
    /\ last' = NoCall
    /\ UNCHANGED <<now, defaultTTL, sweepPeriod, sweepC, cache, ttlHK, heap, written, pc, loc>>

Next ==
    \/ AdvanceClock
    \/ Return
    \/ \E k \in Keys, v \in Values, o \in OptTTLs : SetCall(k, v, o)
    \/ \E k \in Keys : GetCall(k)

Spec == Init /\ [][Next]_vars

(***************************************************************************)
(* The sequential cache with updateCacheEntry called directly, as the      *)
(* package's own tests call it, on keys in the store and not.              *)
(***************************************************************************)
Exps == {getExp(now, d) : d \in Durations}

UpdateCall(k, v, e) ==
    LET r == updateCacheEntry(cache, heap, ttlHK, newCacheEntry(k, v, e)) IN
    /\ last = NoCall
    /\ now <= SetUntil
    /\ heap' = r.heap
    /\ ttlHK' = r.ttlHK
    /\ last' = [op |-> "Update", key |-> k, val |-> v, err |-> r.err, upd |-> TRUE]
    /\ written' = IF r.err = NilErr THEN [written EXCEPT ![k] = v] ELSE written
    /\ UNCHANGED <<now, defaultTTL, sweepPeriod, sweepC, cache, pc, loc>>

UpdNext ==
    \/ Next
    \/ \E k \in Keys, v \in Values, e \in Exps : UpdateCall(k, v, e)

UpdSpec == Init /\ [][UpdNext]_vars

(***************************************************************************)
(* The constructor, called with valid and invalid arguments.  A failed     *)
(* call returns no cache: the fields are those of no object.               *)
(***************************************************************************)
CtorArgs == -1 .. MaxArg

CtorInit ==
    /\ now = 0
    /\ defaultTTL = 0
    /\ sweepPeriod = 0
    /\ cache = <<>>
    /\ ttlHK = <<>>
    /\ sweepC = 0
    /\ heap = <<>>
    /\ last = NoCall
    /\ written = [k \in Keys |-> NilValue]
    /\ pc = [p \in Procs |-> "idle"]
    /\ loc = [p \in Procs |-> NoLocals]

NewCall(numSize, dTTL, sweep) ==
    LET r == NewTTLCache(numSize, dTTL, sweep) IN
    /\ last = NoCall
    /\ last' = [op |-> "NewTTLCache", numSize |-> numSize, defaultTTL |-> dTTL,
                sweepPeriod |-> sweep, err |-> r.err, ok |-> r.ok]
    /\ defaultTTL' = IF r.ok THEN r.defaultTTL ELSE 0
    /\ sweepPeriod' = IF r.ok THEN r.sweepPeriod ELSE 0
    /\ cache' = <<>>
    /\ ttlHK' = <<>>
    /\ UNCHANGED <<now, sweepC, heap, written, pc, loc>>

CtorNext ==
    \/ Return
    \/ \E numSize \in CtorArgs, dTTL \in CtorArgs, sweep \in CtorArgs :
          NewCall(numSize, dTTL, sweep)

CtorSpec == CtorInit /\ [][CtorNext]_vars

(***************************************************************************)
(* getExp alone, over the clock's range below the width of exp and over    *)
(* the TTLs of whole seconds a time.Duration holds: twice that width and   *)
(* more.  Two Sets at one instant apply it to the same clock.              *)
(***************************************************************************)
MaxDuration == 2 * ExpMod * Second

WrapClocks == {((ExpMod * i) \div 4) * Second : i \in 0 .. 3}

WrapTTLs == {s * Second : s \in 1 .. MaxDuration \div Second}

WrapInit ==
    /\ now \in WrapClocks
    /\ LET r == NewTTLCache(NumSize, DefaultTTL, SweepPeriod) IN
          /\ r.ok
          /\ defaultTTL = r.defaultTTL
          /\ sweepPeriod = r.sweepPeriod
          /\ cache = r.cache
          /\ ttlHK = r.ttlHK
    /\ sweepC = 0
    /\ heap = <<>>
    /\ last = NoCall
    /\ written = [k \in Keys |-> NilValue]
    /\ pc = [p \in Procs |-> "idle"]
    /\ loc = [p \in Procs |-> NoLocals]

GetExpCall ==
    /\ last = NoCall
    /\ \E short \in WrapTTLs, long \in WrapTTLs :
          /\ short < long
          /\ last' = [op |-> "getExp", short |-> short, long |-> long,
                      expShort |-> getExp(now, short), expLong |-> getExp(now, long)]
    /\ UNCHANGED <<now, defaultTTL, sweepPeriod, sweepC, cache, ttlHK, heap, written, pc, loc>>

WrapNext ==
    \/ Return
    \/ GetExpCall

WrapSpec == WrapInit /\ [][WrapNext]_vars

(***************************************************************************)
(* Concurrent callers.  The package takes no lock, so the calls of several *)
(* goroutines interleave statement by statement; each action below is one  *)
(* statement of Set, updateCacheEntry, insertNewHKEntry or Get, executed   *)
(* by caller p.  (Accesses that overlap within a statement are a data race *)
(* whose outcomes include these interleavings.)                            *)
(***************************************************************************)
Goto(p, label) == pc' = [pc EXCEPT ![p] = label]

\* Set, lines 51-55: the TTL and the new entry.
CSetStart(p, k, v, o) ==
    /\ pc[p] = "idle"
    /\ loc[p].calls < MaxCalls
    /\ now <= SetUntil
    /\ loc' = [loc EXCEPT ![p] = [@ EXCEPT !.key = k, !.value = v,
                                          !.exp = getExp(now, SetTTL(o, defaultTTL)),
                                          !.calls = @ + 1]]
    /\ Goto(p, "exists")
    /\ UNCHANGED <<now, defaultTTL, sweepPeriod, sweepC, cache, ttlHK, heap, last, written>>

\* Set, line 57: is the key in the store?
CSetExists(p) ==
    /\ pc[p] = "exists"
    /\ IF loc[p].key \in DOMAIN cache THEN Goto(p, "lookup") ELSE Goto(p, "store")
    /\ UNCHANGED <<now, defaultTTL, sweepPeriod, sweepC, cache, ttlHK, heap, last, written, loc>>

\* updateCacheEntry, lines 78-81: look the entry up.
CUpdLookup(p) ==
    /\ pc[p] = "lookup"
    /\ IF loc[p].key \notin DOMAIN cache
       THEN /\ loc' = [loc EXCEPT ![p].err = newBadUpdateRequestErr(loc[p].key)]
            /\ Goto(p, "idle")
       ELSE /\ loc' = [loc EXCEPT ![p].addr = cache[loc[p].key]]
            /\ Goto(p, "setValue")
    /\ UNCHANGED <<now, defaultTTL, sweepPeriod, sweepC, cache, ttlHK, heap, last, written>>

\* updateCacheEntry, line 83.
CUpdValue(p) ==
    /\ pc[p] = "setValue"
    /\ heap' = [heap EXCEPT ![loc[p].addr].value = loc[p].value]
    /\ Goto(p, "setExp")
    /\ UNCHANGED <<now, defaultTTL, sweepPeriod, sweepC, cache, ttlHK, last, written, loc>>

\* updateCacheEntry, line 84.
CUpdExp(p) ==
    /\ pc[p] = "setExp"
    /\ heap' = [heap EXCEPT ![loc[p].addr].exp = loc[p].exp]
    /\ Goto(p, "sort")
    /\ UNCHANGED <<now, defaultTTL, sweepPeriod, sweepC, cache, ttlHK, last, written, loc>>

\* updateCacheEntry, lines 86-90: sort and return nil.
CUpdSort(p) ==
    /\ pc[p] = "sort"
    /\ ttlHK' = SortSlice(ttlHK, heap)
    /\ loc' = [loc EXCEPT ![p].err = NilErr]
    /\ Goto(p, "idle")
    /\ UNCHANGED <<now, defaultTTL, sweepPeriod, sweepC, cache, heap, last, written>>

\* Set, line 61: c.cache[entry.key] = entry.
CStore(p) ==
    /\ pc[p] = "store"
    /\ LET a == NewAddr(heap, loc[p].key) IN
       /\ heap' = heap @@ (a :> newCacheEntry(loc[p].key, loc[p].value, loc[p].exp))
       /\ cache' = (loc[p].key :> a) @@ cache
       /\ loc' = [loc EXCEPT ![p].addr = a]
    /\ Goto(p, "search")
    /\ UNCHANGED <<now, defaultTTL, sweepPeriod, sweepC, ttlHK, last, written>>

\* insertNewHKEntry, lines 94-96.
CSearch(p) ==
    /\ pc[p] = "search"
    /\ loc' = [loc EXCEPT ![p].i = SortSearch(ttlHK, heap, loc[p].exp)]
    /\ Goto(p, "append")
    /\ UNCHANGED <<now, defaultTTL, sweepPeriod, sweepC, cache, ttlHK, heap, last, written>>

\* insertNewHKEntry, line 97.
CAppend(p) ==
    /\ pc[p] = "append"
    /\ ttlHK' = Append(ttlHK, Placeholder)
    /\ Goto(p, "copy")
    /\ UNCHANGED <<now, defaultTTL, sweepPeriod, sweepC, cache, heap, last, written, loc>>

\* insertNewHKEntry, line 98.
CCopy(p) ==
    /\ pc[p] = "copy"
    /\ ttlHK' = CopyRight(ttlHK, loc[p].i)
    /\ Goto(p, "place")
    /\ UNCHANGED <<now, defaultTTL, sweepPeriod, sweepC, cache, heap, last, written, loc>>

\* insertNewHKEntry, line 99, and Set's return nil.
CPlace(p) ==
    /\ pc[p] = "place"
    /\ ttlHK' = [ttlHK EXCEPT ![loc[p].i + 1] = loc[p].addr]
    /\ loc' = [loc EXCEPT ![p].err = NilErr]
    /\ Goto(p, "idle")
    /\ UNCHANGED <<now, defaultTTL, sweepPeriod, sweepC, cache, heap, last, written>>

\* Get, lines 67-72.
CGet(p, k) ==
    /\ pc[p] = "idle"
    /\ loc[p].calls < MaxCalls
    /\ LET r == Get(cache, heap, now, k) IN
       loc' = [loc EXCEPT ![p] = [@ EXCEPT !.key = k, !.val = r.val, !.err = r.err,
                                          !.calls = @ + 1]]
    /\ UNCHANGED <<now, defaultTTL, sweepPeriod, sweepC, cache, ttlHK, heap, last, written, pc>>

ConcNext ==
    \/ AdvanceClock
    \/ \E p \in Procs, k \in Keys, v \in Values, o \in OptTTLs : CSetStart(p, k, v, o)
    \/ \E p \in Procs : CSetExists(p)
    \/ \E p \in Procs : CUpdLookup(p)
    \/ \E p \in Procs : CUpdValue(p)
    \/ \E p \in Procs : CUpdExp(p)
    \/ \E p \in Procs : CUpdSort(p)
    \/ \E p \in Procs : CStore(p)
    \/ \E p \in Procs : CSearch(p)
    \/ \E p \in Procs : CAppend(p)
    \/ \E p \in Procs : CCopy(p)
    \/ \E p \in Procs : CPlace(p)
    \/ \E p \in Procs, k \in Keys : CGet(p, k)

ConcSpec == Init /\ [][ConcNext]_vars

(***************************************************************************)
(* Properties of the sequential cache.                                     *)
(***************************************************************************)
\* The index is in non-decreasing order of exp.
Sorted(hk, h) ==
    \A i \in 1 .. Len(hk) - 1 : EntryAt(h, hk[i]).exp <= EntryAt(h, hk[i + 1]).exp

\* The positions of address a in the index, and the first of them.
Positions(hk, a) == {i \in 1 .. Len(hk) : hk[i] = a}
PosOf(hk, a) == CHOOSE i \in Positions(hk, a) : \A j \in Positions(hk, a) : i <= j

\* The clock, in whole seconds.
NowSec == now \div Second

\* C1: in every state reached by Set calls at non-decreasing clock values,
\* the index ttlHK is non-decreasing by exp.
C1_IndexSorted == Sorted(ttlHK, heap)

\* C2: after any sequence of completed Set and Get calls the index is as long
\* as the store has keys, and holds exactly the entry objects the store maps
\* its keys to, each of them once.
C2_StoreIndexAgree ==
    /\ Len(ttlHK) = Cardinality(DOMAIN cache)
    /\ {ttlHK[i] : i \in 1 .. Len(ttlHK)} = {cache[k] : k \in DOMAIN cache}
    /\ \A i, j \in 1 .. Len(ttlHK) : ttlHK[i] = ttlHK[j] => i = j
    /\ \A k \in DOMAIN cache : heap[cache[k]].key = k

C2_Witness ==
    /\ last.op = "Set" /\ last.upd
    /\ Len(ttlHK) = NumKeys
    /\ C2_StoreIndexAgree

\* C3: a Set of a key that is already in the store (a step in which a Set
\* returns, last' being its record) leaves the sizes of store and index as
\* they were, exactly one entry for the key in the store and one reference
\* with that key in the index, and the entry's value is the one set.
C3_NoDuplicationOnOverwrite ==
    [][(last = NoCall /\ last'.op = "Set" /\ last'.key \in DOMAIN cache) =>
          LET k == last'.key IN
          /\ last'.upd /\ last'.err = NilErr
          /\ Len(ttlHK') = Len(ttlHK)
          /\ DOMAIN cache' = DOMAIN cache
          /\ Cardinality({j \in DOMAIN cache' : heap'[cache'[j]].key = k}) = 1
          /\ Cardinality({i \in 1 .. Len(ttlHK') : heap'[ttlHK'[i]].key = k}) = 1
          /\ heap'[cache'[k]].value = last'.val]_vars

C3_Witness ==
    /\ last.op = "Set" /\ last.upd /\ last.err = NilErr
    /\ Len(ttlHK) >= 2
    /\ Cardinality({i \in 1 .. Len(ttlHK) : heap[ttlHK[i]].key = last.key}) = 1
    /\ heap[cache[last.key]].value = last.val

\* C4: a Get of a key that has been Set returns, with no error, the value of
\* the most recent Set of that key.
C4_SetGetRoundTrip ==
    (last.op = "Get" /\ written[last.key] # NilValue) =>
        (last.err = NilErr /\ last.val = written[last.key])

C4_Witness ==
    /\ last.op = "Get" /\ last.err = NilErr
    /\ last.val = "y" /\ written[last.key] = "y"
    /\ \E k \in Keys \ {last.key} : written[k] = "x"

\* C5: when a Set updates an existing key to a later expiration in a sorted
\* index, the key's reference ends strictly after every entry whose
\* expiration is smaller than the key's new one.
C5_UpdateMovesLater ==
    [][\A k \in Keys, v \in Values, o \in OptTTLs :
          (/\ k \in DOMAIN cache
           /\ SetCall(k, v, o)
           /\ Sorted(ttlHK, heap)
           /\ heap'[cache[k]].exp > heap[cache[k]].exp) =>
             \A j \in DOMAIN cache \ {k} :
                 heap'[cache[j]].exp < heap'[cache[k]].exp =>
                     PosOf(ttlHK', cache[j]) < PosOf(ttlHK', cache[k])]_vars

\* C6: when a Set updates an existing key, every two other entries of the
\* index keep the relative order they had.
C6_UpdateKeepsOthers ==
    [][\A k \in Keys, v \in Values, o \in OptTTLs :
          (k \in DOMAIN cache /\ SetCall(k, v, o)) =>
             \A i, j \in DOMAIN cache \ {k} :
                 PosOf(ttlHK, cache[i]) < PosOf(ttlHK, cache[j]) =>
                     PosOf(ttlHK', cache[i]) < PosOf(ttlHK', cache[j])]_vars

\* C8: a Get made more than one sweep period after the clock has passed the
\* expiration of the key's entry (as last Set) returns KeyNotFound.
C8_ExpiredUnreachable ==
    (/\ last.op = "Get"
     /\ last.key \in DOMAIN cache
     /\ now > (heap[cache[last.key]].exp + 1) * Second + sweepPeriod) =>
        last.err = newKeyNotFoundErr(last.key)

\* C9: after a sweep pass, which the ticker triggers, the store and the
\* index hold only the entries whose exp is greater than the clock, the
\* same ones in both, in the order they had.
C9_SweepRemovesExpired ==
    [][(AdvanceClock /\ (now + 1) % sweepPeriod = 0) =>
          /\ \A k \in DOMAIN cache' : heap'[cache'[k]].exp > now' \div Second
          /\ \A i \in 1 .. Len(ttlHK') : heap'[ttlHK'[i]].exp > now' \div Second]_vars

\* C10: Get does not look at exp: a Get of a key in the store (a step in
\* which a Get returns, last' being its record) returns the entry's value
\* and no error whatever the clock, and it removes nothing.
C10_LazyExpiration ==
    [][(last = NoCall /\ last'.op = "Get") =>
          /\ cache' = cache /\ ttlHK' = ttlHK /\ heap' = heap
          /\ last'.key \in DOMAIN cache =>
                (last'.err = NilErr /\ last'.val = heap[cache[last'.key]].value)]_vars

\* C7: with concurrent callers, whenever all calls have returned the store
\* and the index agree: as many references as keys, the same entry objects,
\* each once (so one reference for a key Set twice at once).
Quiescent == \A p \in Procs : pc[p] = "idle"
C7_ConcurrentAtomicity == Quiescent => C2_StoreIndexAgree

C10_Witness ==
    /\ last.op = "Get" /\ last.err = NilErr
    /\ last.key \in DOMAIN cache
    /\ last.val = heap[cache[last.key]].value
    /\ NowSec > heap[cache[last.key]].exp

\* C11: a Get of a key that is not in the store returns the nil value and a
\* KeyNotFound error naming that key, which is not the BadUpdateRequest error.
C11_GetMiss ==
    (last.op = "Get" /\ last.key \notin DOMAIN cache) =>
        /\ last.val = NilValue
        /\ last.err = newKeyNotFoundErr(last.key)
        /\ last.err.kind # newBadUpdateRequestErr(last.key).kind

C11_Witness ==
    /\ last.op = "Get" /\ last.key \notin DOMAIN cache
    /\ last.err.kind = "KeyNotFound" /\ last.err.key = last.key
    /\ DOMAIN cache # {}

\* The stored form of an instant t: its whole seconds, at the width of exp.
StoredSeconds(t) == (t \div Second) % ExpMod

\* C14: a Set (last.opt being the optTTL it was given) stores, for a new key
\* and for an existing one, the expiration of now + optTTL[0] when an optTTL
\* is given and positive, and of now + defaultTTL when none is given or the
\* one given is zero or negative.
C14_TTLSelection ==
    last.op = "Set" =>
        heap[cache[last.key]].exp =
            IF Len(last.opt) > 0 /\ last.opt[1] > 0
            THEN StoredSeconds(now + last.opt[1])
            ELSE StoredSeconds(now + defaultTTL)

C14_Witness ==
    /\ last.op = "Set" /\ last.upd /\ last.opt = <<MaxTTL>>
    /\ heap[cache[last.key]].exp = StoredSeconds(now + MaxTTL)
    /\ heap[cache[last.key]].exp # StoredSeconds(now + defaultTTL)

\* C15: a Set of a key that is not in the store, on a sorted index, leaves the
\* index sorted and one longer, with the new reference at the first position
\* whose entry has an expiration greater than or equal to the new one (the
\* end when there is none), and the other references in their former order.
C15_SortedInsertion ==
    [][(last = NoCall /\ last'.op = "Set" /\ last'.key \notin DOMAIN cache
            /\ Sorted(ttlHK, heap)) =>
          LET a == cache'[last'.key]
              e == heap'[a].exp
              p == PosOf(ttlHK', a)
          IN  /\ Sorted(ttlHK', heap')
              /\ Len(ttlHK') = Len(ttlHK) + 1
              /\ Cardinality(Positions(ttlHK', a)) = 1
              /\ \A i \in 1 .. Len(ttlHK) :
                    /\ i < p => heap[ttlHK[i]].exp < e
                    /\ i >= p => heap[ttlHK[i]].exp >= e
                    /\ ttlHK[i] = ttlHK'[IF i < p THEN i ELSE i + 1]]_vars

C15_Witness ==
    /\ last.op = "Set" /\ ~last.upd
    /\ Len(ttlHK) = 3 /\ Sorted(ttlHK, heap)
    /\ ttlHK[2] = cache[last.key]
    /\ heap[ttlHK[1]].exp < heap[ttlHK[2]].exp
    /\ heap[ttlHK[2]].exp = heap[ttlHK[3]].exp

C17_SetCannotFail ==
    last.op = "Set" => (last.err = NilErr /\ last.err.kind # "BadUpdateRequest")

C17_Witness ==
    /\ last.op = "Set" /\ last.upd /\ last.err = NilErr
    /\ \E k \in DOMAIN cache : k # last.key

\* C18: a Set of key k adds and removes no other key, and leaves every other
\* key with the entry object, the value and the expiration it had.
C18_SetFrame ==
    [][(last = NoCall /\ last'.op = "Set") =>
          \A j \in Keys \ {last'.key} :
              /\ j \in DOMAIN cache' <=> j \in DOMAIN cache
              /\ j \in DOMAIN cache =>
                    /\ cache'[j] = cache[j]
                    /\ heap'[cache[j]] = heap[cache[j]]]_vars

C18_Witness ==
    /\ last.op = "Set" /\ last.upd
    /\ Cardinality(DOMAIN cache) = NumKeys
    /\ ttlHK[1] # cache[last.key]
    /\ \E j \in DOMAIN cache : heap[cache[j]].value # last.val

\* C19: a Get, of a key in the store or not, leaves the store, the index and
\* every entry as they were.
C19_GetReadOnly ==
    [][(last = NoCall /\ last'.op = "Get") =>
          (cache' = cache /\ ttlHK' = ttlHK /\ heap' = heap)]_vars

C19_Witness ==
    /\ last.op = "Get" /\ last.err = NilErr
    /\ heap[cache[last.key]].exp < NowSec
    /\ Len(ttlHK) >= 2

\* C12: updateCacheEntry with an entry whose key is not in the store returns
\* the BadUpdateRequest error naming that key and leaves the store, the index
\* and every entry as they were.
C12_BadUpdateRequest ==
    [][(last = NoCall /\ last'.op = "Update" /\ last'.key \notin DOMAIN cache) =>
          /\ last'.err = newBadUpdateRequestErr(last'.key)
          /\ cache' = cache /\ ttlHK' = ttlHK /\ heap' = heap]_vars

C12_Witness ==
    /\ last.op = "Update" /\ last.key \notin DOMAIN cache
    /\ last.err.kind = "BadUpdateRequest" /\ last.err.key = last.key
    /\ Len(ttlHK) >= 2

\* C13: NewTTLCache returns a cache (empty store, empty index, the default
\* TTL given) and the nil error exactly when its three arguments are all
\* positive.  Otherwise it returns no cache and an error of the kind of an
\* argument that is not positive: InvalidSize for the size, InvalidTTL for
\* the default TTL, InvalidSweepPeriod for the sweep period, that kind when
\* the argument is the only one at fault; the three kinds differ.
C13_ConstructorValidation ==
    last.op = "NewTTLCache" =>
        LET n == last.numSize
            d == last.defaultTTL
            s == last.sweepPeriod
        IN  /\ last.ok <=> (n > 0 /\ d > 0 /\ s > 0)
            /\ last.ok <=> last.err = NilErr
            /\ last.ok => (cache = <<>> /\ ttlHK = <<>> /\ defaultTTL = d)
            /\ ~last.ok =>
                  /\ defaultTTL = 0 /\ sweepPeriod = 0
                  /\ last.err.kind \in {"InvalidSize", "InvalidTTL", "InvalidSweepPeriod"}
                  /\ last.err.kind = "InvalidSize" => n <= 0
                  /\ last.err.kind = "InvalidTTL" => d <= 0
                  /\ last.err.kind = "InvalidSweepPeriod" => s <= 0
            /\ (n <= 0 /\ d > 0 /\ s > 0) => last.err = newInvalidSizeErr(n)
            /\ (n > 0 /\ d <= 0 /\ s > 0) => last.err = newInvalidTTLErr(d)
            /\ (n > 0 /\ d > 0 /\ s <= 0) => last.err = newInvalidSweepPeriodErr(s)
            /\ newInvalidSizeErr(n).kind # newInvalidTTLErr(d).kind
            /\ newInvalidTTLErr(d).kind # newInvalidSweepPeriodErr(s).kind
            /\ newInvalidSizeErr(n).kind # newInvalidSweepPeriodErr(s).kind

C13_Witness ==
    /\ last.op = "NewTTLCache" /\ ~last.ok
    /\ last.numSize > 0 /\ last.defaultTTL = 0 /\ last.sweepPeriod > 0
    /\ last.err.kind = "InvalidTTL"

\* C20: of two expirations computed at the same instant, the one of the
\* longer TTL is never smaller than the one of the shorter TTL, for every
\* positive TTL a caller may pass.
C20_LongerTTLNotEarlier ==
    last.op = "getExp" => last.expShort <= last.expLong

====
